---- MODULE Spec2Model ----
(***************************************************************************)
(* Offline-first scan pipeline of the Palitana Yatra tracker.              *)
(*                                                                         *)
(* Each device runs the useOfflineSync hook (hooks/use-offline-sync.ts):   *)
(* React state (pendingScans, isOnline, isSyncing), the AsyncStorage copy  *)
(* of the pending list, the cached scanLogs.list query, and the callbacks  *)
(* addScan / syncSingleScan / syncPendingScans.  A callback works on the   *)
(* values its closure captured at the render that created it, so every    *)
(* asynchronous task carries the snapshot (snap) it was started with.      *)
(* The authoritative scanLogs.create procedure is shared by all devices.   *)
(***************************************************************************)
EXTENDS Integers, Sequences, FiniteSets, Bags, TLC

\* ---------------------------------------------------------------- bounds
Devices == {"A"}           \* devices running the hook
RemoteDevice == "B"        \* another device, seen through its create calls
Participants == {"P1", "P2"}
Checkpoints == {1}

MaxScans == 1        \* scans created by addScan in one behaviour
MaxTasks == 2        \* asynchronous tasks in flight on one device
MaxFail == 1         \* transient network failures in one behaviour
MaxRemote == 1       \* create calls of the remote device in one behaviour
MaxRetryCount == 10  \* largest retryCount getRetryDelay is called with
MaxLog == 3          \* scans handed to the logger in one behaviour
MaxSinkTasks == 2    \* calls of the logger in flight at once
MaxBulk == 2         \* scans in one logScans call
MaxPending == 52     \* scans in the pending list a cycle selects its batch from
MaxRestarts == 2     \* restarts of the process in one behaviour
MaxTimestamp == 1    \* values of the timestamp part of a token: 0..MaxTimestamp
MaxRandom == 1       \* values of the random part of a token: 0..MaxRandom
MaxUuid == 1         \* values of the UUID part of a fallback token: 0..MaxUuid

\* capacity of the retry queue: 1000 in the class, scaled down so that the
\* queue fills
maxRetryQueueSize == 2

\* ------------------------------------------------------ program constants
BASE_RETRY_DELAY == 1000
MAX_RETRY_DELAY == 30000
MAX_RETRIES == 10
BATCH_SIZE == 50
JITTER_MAX == 500     \* Math.random() * 500

\* generateQRToken: const maxAttempts = 100
maxAttempts == 100

VARIABLES
    server,        \* rows of the authoritative scan_logs table
    createLog,     \* history: {[scan, res]} answers given by scanLogs.create
    remote,        \* scans the remote device has sent to scanLogs.create
    remoteCalls,   \* number of create calls of the remote device
    nextId,        \* next value crypto.randomUUID() hands out
    fails,         \* transient network failures so far
    isOnline,      \* [device -> BOOLEAN]  useState(true)
    isSyncing,     \* [device -> BOOLEAN]  useState(false)
    pendingScans,  \* [device -> Seq(scan)] useState([])
    storage,       \* [device -> Stored(list) or Null] AsyncStorage PENDING_SCANS
    scanLogs,      \* [device -> set of rows] data of the scanLogs.list query
    deviceId,      \* [device -> id or ""] useState("")
    initPc,        \* [device -> position of the init effect]
    netL,          \* [device -> closure of the registered NetInfo listener]
    appL,          \* [device -> closure of the registered AppState handler]
    tasks,         \* [device -> bag of tasks] asynchronous calls in flight
    accepted,      \* history: [device -> ids addScan answered success for]
    resolved,      \* history: [device -> ids whose dispatch returned success/duplicate]
    persisted,     \* history: [device -> ids in storage when the process started]
    returned,      \* what the handler that ran last returned, if it was addScan
    lastSyncTime   \* [device -> "null" or "date"] useState<Date | null>(null)

hookVars == <<server, createLog, remote, remoteCalls, nextId, fails, isOnline, isSyncing,
              pendingScans, storage, scanLogs, deviceId, initPc, netL, appL,
              tasks, accepted, resolved, persisted, returned, lastSyncTime>>

VARIABLES
    retry          \* the call of getRetryDelay under way: [retryCount, jitter, delay]

delayVars == <<retry>>

\* GoogleSheetsLogger, the singleton of the server process
VARIABLES
    config,        \* "null", "enabled" or "disabled" (config.enabled)
    failedScans,   \* Seq(uuid): the retry queue
    retryInterval, \* BOOLEAN: the retry processor's setInterval is set
    sinkTasks,     \* bag of asynchronous calls of the logger in flight
    dropped,       \* history: {[uuid, warned]} scans discarded at capacity
    sinkReturned,  \* how the logScan / logScans call that settled last settled
    nextLog        \* uuid of the next scan handed to the logger

sinkVars == <<config, failedScans, retryInterval, sinkTasks, dropped, sinkReturned, nextLog>>

\* independent readers of the authoritative snapshot (scanLogs.list)
VARIABLES
    readerLogs,    \* [reader -> set of rows] what the reader's last fetch returned
    readerAt       \* history: [reader -> number of rows stored at its last fetch, or -1]

readerVars == <<readerLogs, readerAt>>

\* the batch selection of a sync cycle taken on its own
VARIABLES
    selection      \* [pendingScans, scansToSync, done]: the list read and the batch cut from it

selectionVars == <<selection>>

\* getOrCreateDeviceId, called by every instance of the hook that mounts
VARIABLES
    deviceIdItem,  \* AsyncStorage DEVICE_ID: 0 (getItem answers null) or the id
    idCalls,       \* [caller -> [pc, deviceId]] the calls of getOrCreateDeviceId
    nextUuid,      \* next value crypto.randomUUID() hands out
    restarts,      \* restarts of the process so far
    idReturned     \* history: the identifiers the calls have returned

deviceIdVars == <<deviceIdItem, idCalls, nextUuid, restarts, idReturned>>

\* generateQRToken(existingTokens)
VARIABLES
    qr             \* [existingTokens, attempts, token, done] the call under way

tokenVars == <<qr>>

\* the state outside the React state of the hook
outsideHook == <<delayVars, sinkVars, readerVars, selectionVars, deviceIdVars, tokenVars>>

vars == <<hookVars, outsideHook>>

\* AsyncStorage.getItem answers null for a key never written
Null == [has |-> FALSE, list |-> <<>>]

Stored(list) == [has |-> TRUE, list |-> list]

StoredList(st) == st.list

\* ------------------------------------------------------------ data model
NewScan(id, p, c, dev) ==
    [id |-> id, participantId |-> p, checkpointId |-> c, timestamp |-> id,
     deviceId |-> dev, retryCount |-> 0]

NoScan == [id |-> 0, participantId |-> "", checkpointId |-> 0, timestamp |-> 0,
           deviceId |-> "", retryCount |-> 0]

Row(s) == [id |-> s.id, participantId |-> s.participantId,
           checkpointId |-> s.checkpointId, deviceId |-> s.deviceId]

Ids(list) == {list[i].id : i \in DOMAIN list}

Idle == [kind |-> "idle", scan |-> NoScan, snap |-> <<>>, batch |-> <<>>,
         i |-> 0, res |-> "none", online |-> FALSE]

Return(dev, scan, res, on) == [dev |-> dev, scan |-> scan, res |-> res, online |-> on]

NoReturn == Return("", NoScan, "none", FALSE)

Closure(on, sy, pend) == [isOnline |-> on, isSyncing |-> sy, pendingScans |-> pend]

Min(a, b) == IF a < b THEN a ELSE b

\* ------------------------------------------- authoritative write path
\* the store compares the uuid only
HasRow_ByUuid(srv, s) == \E i \in DOMAIN srv : srv[i].id = s.id

HasRow(srv, s) ==
    \E i \in DOMAIN srv : /\ srv[i].participantId = s.participantId
                          /\ srv[i].checkpointId = s.checkpointId

\* the store ignores a request for a stored key without saying duplicate
CreateResult_SilentOnDuplicate(srv, s) == IF HasRow(srv, s) THEN "none" ELSE "ok"

\* the store answers success without looking at the key
CreateResult_AlwaysAccepted(srv, s) == "ok"

CreateResult(srv, s) == IF HasRow(srv, s) THEN "dup" ELSE "ok"

\* the result object of scanLogs.create
CreateAnswer(res) == [success |-> res = "ok", duplicate |-> res = "dup"]

\* the store inserts without the key check
CreateRows_Unchecked(srv, s) == Append(srv, Row(s))

CreateRows(srv, s) == IF HasRow(srv, s) THEN srv ELSE Append(srv, Row(s))

\* ------------------------------------------------- pure parts of the hook
\* delay + jitter capped at MAX_RETRY_DELAY, without the cap
getRetryDelay_Uncapped(retryCount, jitter) ==
    LET delay == BASE_RETRY_DELAY * 2^retryCount
    IN delay + jitter

getRetryDelay(retryCount, jitter) ==
    LET delay == BASE_RETRY_DELAY * 2^retryCount
    IN Min(delay + jitter, MAX_RETRY_DELAY)

isDuplicateScan(logs, pend, p, c) ==
    LET inSynced == \E log \in logs : log.participantId = p /\ log.checkpointId = c
        inPending == \E i \in DOMAIN pend :
                        pend[i].participantId = p /\ pend[i].checkpointId = c
    IN inSynced \/ inPending

RemoveScan(snap, id) == SelectSeq(snap, LAMBDA s : s.id # id)

\* a retry that also stamps the scan with the time of the retry
IncrementRetry_Restamped(snap, id) ==
    [i \in DOMAIN snap |->
        IF snap[i].id = id
        THEN [snap[i] EXCEPT !.retryCount = @ + 1, !.timestamp = @ + 1000]
        ELSE snap[i]]

IncrementRetry(snap, id) ==
    [i \in DOMAIN snap |->
        IF snap[i].id = id THEN [snap[i] EXCEPT !.retryCount = @ + 1] ELSE snap[i]]

DropExceeded(list) == SelectSeq(list, LAMBDA s : s.retryCount < MAX_RETRIES)

OnDispatchOk(snap, scan) == RemoveScan(snap, scan.id)

OnDispatchErr(snap, scan) == DropExceeded(IncrementRetry(snap, scan.id))

RECURSIVE InsertByRetry(_, _)
InsertByRetry(sorted, s) ==
    IF sorted = <<>> THEN <<s>>
    ELSE IF sorted[Len(sorted)].retryCount <= s.retryCount
         THEN Append(sorted, s)
         ELSE Append(InsertByRetry(SubSeq(sorted, 1, Len(sorted) - 1), s),
                     sorted[Len(sorted)])

RECURSIVE SortByRetry(_)
SortByRetry(list) ==
    IF list = <<>> THEN <<>>
    ELSE InsertByRetry(SortByRetry(SubSeq(list, 1, Len(list) - 1)), list[Len(list)])

\* the batch taken from the front of the list as it stands
ScansToSync_Unsorted(pend) == SubSeq(pend, 1, Min(Len(pend), BATCH_SIZE))

ScansToSync(pend) ==
    LET sortedScans == SortByRetry(pend)
    IN SubSeq(sortedScans, 1, Min(Len(sortedScans), BATCH_SIZE))

\* ------------------------------------------------------------------ tasks
Running(d) == BagToSet(tasks[d])

HasRoom(d) == BagCardinality(tasks[d]) < MaxTasks

Start(d, t) == tasks' = [tasks EXCEPT ![d] = @ (+) SetToBag({t})]

Finish(d, t) == tasks' = [tasks EXCEPT ![d] = @ (-) SetToBag({t})]

Become(d, t, u) == tasks' = [tasks EXCEPT ![d] = (@ (-) SetToBag({t})) (+) SetToBag({u})]

AddTask(s, snap, on) ==
    [Idle EXCEPT !.kind = "add", !.scan = s, !.snap = snap, !.online = on]

DispatchTask(s, snap) ==
    [Idle EXCEPT !.kind = "dispatch", !.scan = s, !.snap = snap, !.res = "sent"]

\* where the loop of a cycle stands when it turns to a scan: in the
\* setTimeout of its backoff if the scan was retried before, else in its
\* dispatch
LoopStage(scan) == IF scan.retryCount > 0 THEN "wait" ELSE "sent"

CycleTask(snap) ==
    LET b == ScansToSync(snap)
    IN [Idle EXCEPT !.kind = "cycle", !.snap = snap, !.batch = b, !.i = 1,
                    !.scan = b[1], !.res = LoopStage(b[1])]

\* The effects with dependency [pendingScans.length] (NetInfo listener) and
\* [isOnline, pendingScans.length] (AppState handler) re-register their
\* callback, with the values of the new render, only when a dependency changed.
Effects(d) ==
    LET now == Closure(isOnline'[d], isSyncing'[d], pendingScans'[d])
        lenChanged == Len(pendingScans'[d]) # Len(pendingScans[d])
    IN /\ netL' = [netL EXCEPT ![d] = IF lenChanged THEN now ELSE @]
       /\ appL' = [appL EXCEPT ![d] =
                      IF lenChanged \/ isOnline'[d] # isOnline[d] THEN now ELSE @]

\* ------------------------------------------------------------------ Init
PersistedId(d) == 101

PersistedScan(d, rc) ==
    [NewScan(PersistedId(d), "P1", 1, d) EXCEPT !.retryCount = rc]

\* What AsyncStorage may hold when the process starts: nothing (fresh
\* install) or the pending list an earlier run of the hook saved.
PersistedLists(d) ==
    {Null, Stored(<<PersistedScan(d, MAX_RETRIES - 1)>>)}

InitHook(stored) ==
    /\ server = <<>>
    /\ createLog = {}
    /\ remote = {}
    /\ remoteCalls = 0
    /\ nextId = 1
    /\ fails = 0
    /\ isOnline = [d \in Devices |-> TRUE]
    /\ isSyncing = [d \in Devices |-> FALSE]
    /\ pendingScans = [d \in Devices |-> <<>>]
    /\ storage = stored
    /\ scanLogs = [d \in Devices |-> {}]
    /\ deviceId = [d \in Devices |-> ""]
    /\ initPc = [d \in Devices |-> "deviceId"]
    /\ netL = [d \in Devices |-> Closure(TRUE, FALSE, <<>>)]
    /\ appL = [d \in Devices |-> Closure(TRUE, FALSE, <<>>)]
    /\ tasks = [d \in Devices |-> EmptyBag]
    /\ accepted = [d \in Devices |-> {}]
    /\ resolved = [d \in Devices |-> {}]
    /\ persisted = [d \in Devices |-> Ids(StoredList(storage[d]))]
    /\ returned = NoReturn
    /\ lastSyncTime = [d \in Devices |-> "null"]

\* no call of getRetryDelay is under way
NoDelay == [retryCount |-> 0, jitter |-> 0, delay |-> -1]

NoSinkReturn == [call |-> "none", uuid |-> 0, res |-> "none", logged |-> 0, errors |-> 0]

\* the logger after the module was loaded without the environment variables:
\* init() has set config = null
SinkIdle ==
    /\ config = "null"
    /\ failedScans = <<>>
    /\ retryInterval = FALSE
    /\ sinkTasks = EmptyBag
    /\ dropped = {}
    /\ sinkReturned = NoSinkReturn
    /\ nextLog = 1

Readers == {"R1", "R2"}

\* no reader has fetched the snapshot yet
ReadersIdle ==
    /\ readerLogs = [r \in Readers |-> {}]
    /\ readerAt = [r \in Readers |-> -1]

\* no batch selection is looked at on its own
NoSelection == [pendingScans |-> <<>>, scansToSync |-> <<>>, done |-> FALSE]

Callers == {"H1", "H2"}

NoCall == [pc |-> "idle", deviceId |-> 0]

\* no instance has called getOrCreateDeviceId; nothing is persisted
DeviceIdIdle ==
    /\ deviceIdItem = 0
    /\ idCalls = [c \in Callers |-> NoCall]
    /\ nextUuid = 1
    /\ restarts = 0
    /\ idReturned = {}

\* a token: "PYT-" and timestamp plus random characters (form "short"), or
\* "PYT-" and the first eight characters of a UUID (form "uuid")
Token(form, a, b) == [form |-> form, a |-> a, b |-> b]

\* no call of generateQRToken is under way
NoToken == [existingTokens |-> {}, attempts |-> 0, token |-> Token("none", 0, 0), done |-> FALSE]

OutsideIdle ==
    /\ retry = NoDelay
    /\ SinkIdle
    /\ ReadersIdle
    /\ selection = NoSelection
    /\ DeviceIdIdle
    /\ qr = NoToken

InitWith(stored) == InitHook(stored) /\ OutsideIdle

PersistedStores ==
    {f \in [Devices -> UNION {PersistedLists(d) : d \in Devices}] :
        \A d \in Devices : f[d] \in PersistedLists(d)}

\* the hook mounts after a start of the process
Init == \E stored \in PersistedStores : InitWith(stored)

\* the hook mounts for the first time after installation
InitFresh == InitWith([d \in Devices |-> Null])

\* ------------------------------------------------------------ init effect
\* getOrCreateDeviceId() resolved: setDeviceId(id)
InitDeviceId(d) ==
    /\ initPc[d] = "deviceId"
    /\ deviceId' = [deviceId EXCEPT ![d] = d]
    /\ initPc' = [initPc EXCEPT ![d] = "pending"]
    /\ returned' = NoReturn
    /\ UNCHANGED <<outsideHook, lastSyncTime, server, createLog, remote, remoteCalls, nextId, fails, isOnline, isSyncing,
                   pendingScans, storage, scanLogs, netL, appL, tasks, accepted,
                   resolved, persisted>>

\* getItem(PENDING_SCANS) resolved: if (stored) setPendingScans(JSON.parse(stored))
InitLoad(d) ==
    /\ initPc[d] = "pending"
    /\ pendingScans' = [pendingScans EXCEPT ![d] =
                           IF storage[d].has THEN StoredList(storage[d]) ELSE @]
    /\ initPc' = [initPc EXCEPT ![d] = "done"]
    /\ returned' = NoReturn
    /\ UNCHANGED <<outsideHook, lastSyncTime, server, createLog, remote, remoteCalls, nextId, fails, isOnline, isSyncing,
                   storage, scanLogs, deviceId, tasks, accepted, resolved, persisted>>
    /\ Effects(d)

\* --------------------------------------------------------------- addScan
\* addScan that refuses a submission while the device is offline
AddScanCall_OnlineOnly(d, p, c) ==
    /\ IF isDuplicateScan(scanLogs[d], pendingScans[d], p, c)
       THEN /\ returned' = Return(d, NewScan(0, p, c, deviceId[d]), "duplicate", isOnline[d])
            /\ UNCHANGED <<nextId, tasks>>
       ELSE IF ~isOnline[d]
       THEN /\ returned' = Return(d, NewScan(0, p, c, deviceId[d]), "rejected", isOnline[d])
            /\ UNCHANGED <<nextId, tasks>>
       ELSE /\ nextId <= MaxScans
            /\ HasRoom(d)
            /\ LET s == NewScan(nextId, p, c, deviceId[d])
               IN /\ Start(d, AddTask(s, pendingScans[d], isOnline[d]))
                  /\ returned' = NoReturn
            /\ nextId' = nextId + 1
    /\ UNCHANGED <<outsideHook, lastSyncTime, server, createLog, remote, remoteCalls, fails, isOnline, isSyncing, pendingScans,
                   storage, scanLogs, deviceId, initPc, netL, appL, accepted,
                   resolved, persisted>>

\* addScan that answers duplicate and still sends the scan to the server
AddScanCall_DuplicateDispatched(d, p, c) ==
    /\ IF isDuplicateScan(scanLogs[d], pendingScans[d], p, c)
       THEN /\ returned' = Return(d, NewScan(0, p, c, deviceId[d]), "duplicate", isOnline[d])
            /\ HasRoom(d)
            /\ Start(d, DispatchTask(NewScan(0, p, c, deviceId[d]), pendingScans[d]))
            /\ UNCHANGED nextId
       ELSE /\ nextId <= MaxScans
            /\ HasRoom(d)
            /\ LET s == NewScan(nextId, p, c, deviceId[d])
               IN /\ Start(d, AddTask(s, pendingScans[d], isOnline[d]))
                  /\ returned' = NoReturn
            /\ nextId' = nextId + 1
    /\ UNCHANGED <<outsideHook, lastSyncTime, server, createLog, remote, remoteCalls, fails, isOnline, isSyncing, pendingScans,
                   storage, scanLogs, deviceId, initPc, netL, appL, accepted,
                   resolved, persisted>>

\* addScan up to its first await: the local duplicate check, the new scan,
\* and the start of savePendingScans([...pendingScans, newScan]).
AddScanCall(d, p, c) ==
    /\ IF isDuplicateScan(scanLogs[d], pendingScans[d], p, c)
       THEN /\ returned' = Return(d, NewScan(0, p, c, deviceId[d]), "duplicate", isOnline[d])
            /\ UNCHANGED <<nextId, tasks>>
       ELSE /\ nextId <= MaxScans
            /\ HasRoom(d)
            /\ LET s == NewScan(nextId, p, c, deviceId[d])
               IN /\ Start(d, AddTask(s, pendingScans[d], isOnline[d]))
                  /\ returned' = NoReturn
            /\ nextId' = nextId + 1
    /\ UNCHANGED <<outsideHook, lastSyncTime, server, createLog, remote, remoteCalls, fails, isOnline, isSyncing, pendingScans,
                   storage, scanLogs, deviceId, initPc, netL, appL, accepted,
                   resolved, persisted>>

\* addScan that awaits the immediate syncSingleScan(newScan) before it
\* answers: the caller has no result while the dispatch is in flight
AddScanSaved_AwaitsDispatch(d, t) ==
    LET updatedPending == Append(t.snap, t.scan)
    IN /\ t.kind = "add"
       /\ storage' = [storage EXCEPT ![d] = Stored(updatedPending)]
       /\ pendingScans' = [pendingScans EXCEPT ![d] = updatedPending]
       /\ IF t.online THEN Become(d, t, DispatchTask(t.scan, t.snap)) ELSE Finish(d, t)
       /\ accepted' = [accepted EXCEPT ![d] = @ \cup {t.scan.id}]
       /\ returned' = IF t.online THEN NoReturn ELSE Return(d, t.scan, "success", t.online)
       /\ UNCHANGED <<outsideHook, lastSyncTime, server, createLog, remote, remoteCalls, nextId, fails, isOnline, isSyncing,
                      scanLogs, deviceId, initPc, resolved, persisted>>
       /\ Effects(d)

\* a save that appends the new scan to the list as it stands at the save
AddScanSaved_OntoCurrent(d, t) ==
    LET updatedPending == Append(pendingScans[d], t.scan)
    IN /\ t.kind = "add"
       /\ storage' = [storage EXCEPT ![d] = Stored(updatedPending)]
       /\ pendingScans' = [pendingScans EXCEPT ![d] = updatedPending]
       /\ IF t.online THEN Become(d, t, DispatchTask(t.scan, t.snap)) ELSE Finish(d, t)
       /\ accepted' = [accepted EXCEPT ![d] = @ \cup {t.scan.id}]
       /\ returned' = Return(d, t.scan, "success", t.online)
       /\ UNCHANGED <<outsideHook, lastSyncTime, server, createLog, remote, remoteCalls, nextId, fails, isOnline, isSyncing,
                      scanLogs, deviceId, initPc, resolved, persisted>>
       /\ Effects(d)

\* AsyncStorage.setItem resolved: setPendingScans(updatedPending), the
\* immediate syncSingleScan(newScan) if the closure's isOnline, return success.
AddScanSaved(d, t) ==
    LET updatedPending == Append(t.snap, t.scan)
    IN /\ t.kind = "add"
       /\ storage' = [storage EXCEPT ![d] = Stored(updatedPending)]
       /\ pendingScans' = [pendingScans EXCEPT ![d] = updatedPending]
       /\ IF t.online THEN Become(d, t, DispatchTask(t.scan, t.snap)) ELSE Finish(d, t)
       /\ accepted' = [accepted EXCEPT ![d] = @ \cup {t.scan.id}]
       /\ returned' = Return(d, t.scan, "success", t.online)
       /\ UNCHANGED <<outsideHook, lastSyncTime, server, createLog, remote, remoteCalls, nextId, fails, isOnline, isSyncing,
                      scanLogs, deviceId, initPc, resolved, persisted>>
       /\ Effects(d)

\* savePendingScans that sets the state and does not wait for the write:
\* the rejected write goes unnoticed and addScan answers success
AddScanWriteFail_NotAwaited(d, t) ==
    LET updatedPending == Append(t.snap, t.scan)
    IN /\ t.kind = "add"
       /\ pendingScans' = [pendingScans EXCEPT ![d] = updatedPending]
       /\ Finish(d, t)
       /\ accepted' = [accepted EXCEPT ![d] = @ \cup {t.scan.id}]
       /\ returned' = Return(d, t.scan, "success", t.online)
       /\ UNCHANGED <<outsideHook, lastSyncTime, server, createLog, remote, remoteCalls, nextId, fails, isOnline,
                      isSyncing, storage, scanLogs, deviceId, initPc, resolved, persisted>>
       /\ Effects(d)

\* AsyncStorage.setItem rejected: the await in savePendingScans throws, and
\* addScan rejects without setPendingScans and without a result.
AddScanWriteFail(d, t) ==
    /\ t.kind = "add"
    /\ Finish(d, t)
    /\ returned' = Return(d, t.scan, "threw", t.online)
    /\ UNCHANGED <<outsideHook, lastSyncTime, server, createLog, remote, remoteCalls, nextId, fails, isOnline, isSyncing,
                   pendingScans, storage, scanLogs, deviceId, initPc, netL, appL,
                   accepted, resolved, persisted>>

\* ------------------------------------------------- the create call in flight
InFlight(t) == t.kind \in {"dispatch", "cycle"} /\ t.res = "sent"

\* the request reaches scanLogs.create and the answer reaches the device
ServerCreate(d, t) ==
    LET r == CreateResult(server, t.scan)
    IN /\ InFlight(t)
       /\ server' = CreateRows(server, t.scan)
       /\ createLog' = createLog \cup {[scan |-> Row(t.scan), res |-> r]}
       /\ Become(d, t, [t EXCEPT !.res = r])
       /\ returned' = NoReturn
       /\ UNCHANGED <<outsideHook, lastSyncTime, remote, remoteCalls, nextId, fails, isOnline, isSyncing, pendingScans,
                      storage, scanLogs, deviceId, initPc, netL, appL, accepted,
                      resolved, persisted>>

\* the request never reaches the server: mutateAsync rejects
NetworkFail(d, t) ==
    /\ InFlight(t)
    /\ fails < MaxFail
    /\ fails' = fails + 1
    /\ Become(d, t, [t EXCEPT !.res = "err"])
    /\ returned' = NoReturn
    /\ UNCHANGED <<outsideHook, lastSyncTime, server, createLog, remote, remoteCalls, nextId, isOnline, isSyncing,
                   pendingScans, storage, scanLogs, deviceId, initPc, netL, appL,
                   accepted, resolved, persisted>>

\* the server runs create but the answer is lost: mutateAsync rejects
ResponseLost(d, t) ==
    LET r == CreateResult(server, t.scan)
    IN /\ InFlight(t)
       /\ fails < MaxFail
       /\ fails' = fails + 1
       /\ server' = CreateRows(server, t.scan)
       /\ createLog' = createLog \cup {[scan |-> Row(t.scan), res |-> r]}
       /\ Become(d, t, [t EXCEPT !.res = "err"])
       /\ returned' = NoReturn
       /\ UNCHANGED <<outsideHook, lastSyncTime, remote, remoteCalls, nextId, isOnline, isSyncing, pendingScans,
                      storage, scanLogs, deviceId, initPc, netL, appL, accepted,
                      resolved, persisted>>

\* the two forms in which the refusal of a request reaches syncSingleScan:
\* mutateAsync rejects with the error of the procedure ("rejected"), or it
\* resolves with a result that has neither success nor duplicate ("neither")
RejectForms == {"rejected", "neither"}

\* scanLogs.create refuses the request as malformed and stores nothing
ServerRejects(d, t, form) ==
    /\ InFlight(t)
    /\ Become(d, t, [t EXCEPT !.res = form])
    /\ returned' = NoReturn
    /\ UNCHANGED <<outsideHook, lastSyncTime, server, createLog, remote, remoteCalls, nextId, fails, isOnline, isSyncing,
                   pendingScans, storage, scanLogs, deviceId, initPc, netL, appL,
                   accepted, resolved, persisted>>

\* -------------------------------------------------------- syncSingleScan
\* The rest of syncSingleScan after mutateAsync settled: the list it saves is
\* computed from the pendingScans of its closure (t.snap).  Inside a cycle
\* the for loop then goes on to the next scan of the batch.
SyncSingleScanReturn(d, t) ==
    LET ok == t.res \in {"ok", "dup"}
        saves == t.res # "neither"
        list == IF ok THEN OnDispatchOk(t.snap, t.scan) ELSE OnDispatchErr(t.snap, t.scan)
        next == IF t.i < Len(t.batch)
               THEN [t EXCEPT !.i = t.i + 1, !.scan = t.batch[t.i + 1],
                              !.res = LoopStage(t.batch[t.i + 1])]
               ELSE [t EXCEPT !.scan = NoScan, !.res = "end"]
    IN /\ t.kind \in {"dispatch", "cycle"}
       /\ t.res \in {"ok", "dup", "err", "rejected", "neither"}
       /\ storage' = [storage EXCEPT ![d] = IF saves THEN Stored(list) ELSE @]
       /\ pendingScans' = [pendingScans EXCEPT ![d] = IF saves THEN list ELSE @]
       /\ resolved' = [resolved EXCEPT ![d] = IF ok THEN @ \cup {t.scan.id} ELSE @]
       /\ IF t.kind = "dispatch" THEN Finish(d, t) ELSE Become(d, t, next)
       /\ returned' = NoReturn
       /\ UNCHANGED <<outsideHook, lastSyncTime, server, createLog, remote, remoteCalls, nextId, fails, isOnline, isSyncing,
                      scanLogs, deviceId, initPc, accepted, persisted>>
       /\ Effects(d)

\* ------------------------------------------------------ syncPendingScans
\* syncPendingScans as created by the render whose values are c: the guard,
\* setIsSyncing(true), the sorted batch, and the first dispatch.
syncPendingScans(d, c) ==
    IF ~c.isOnline \/ c.isSyncing \/ Len(c.pendingScans) = 0
    THEN UNCHANGED <<isSyncing, tasks>>
    ELSE /\ HasRoom(d)
         /\ isSyncing' = [isSyncing EXCEPT ![d] = TRUE]
         /\ Start(d, CycleTask(c.pendingScans))

\* the setTimeout of getRetryDelay(scan.retryCount) fired: the loop goes on
\* to syncSingleScan(scan)
BackoffElapsed(d, t) ==
    /\ t.kind = "cycle"
    /\ t.res = "wait"
    /\ Become(d, t, [t EXCEPT !.res = "sent"])
    /\ returned' = NoReturn
    /\ UNCHANGED <<outsideHook, lastSyncTime, server, createLog, remote, remoteCalls, nextId, fails, isOnline, isSyncing,
                   pendingScans, storage, scanLogs, deviceId, initPc, netL, appL,
                   accepted, resolved, persisted>>

\* a cycle end that records the time only when a dispatch of the batch succeeded
CycleFinish_AfterSuccess(d, t) ==
    /\ t.kind = "cycle"
    /\ t.res = "end"
    /\ lastSyncTime' = [lastSyncTime EXCEPT ![d] =
                           IF Ids(t.batch) \cap resolved[d] # {} THEN "date" ELSE @]
    /\ scanLogs' = [scanLogs EXCEPT ![d] = {server[i] : i \in DOMAIN server}]
    /\ isSyncing' = [isSyncing EXCEPT ![d] = FALSE]
    /\ Finish(d, t)
    /\ returned' = NoReturn
    /\ UNCHANGED <<outsideHook, server, createLog, remote, remoteCalls, nextId, fails, isOnline, pendingScans,
                   storage, deviceId, initPc, netL, appL, accepted, resolved,
                   persisted>>

\* after the loop: LAST_SYNC, refetchScanLogs(), finally setIsSyncing(false)
CycleFinish(d, t) ==
    /\ t.kind = "cycle"
    /\ t.res = "end"
    /\ lastSyncTime' = [lastSyncTime EXCEPT ![d] = "date"]
    /\ scanLogs' = [scanLogs EXCEPT ![d] = {server[i] : i \in DOMAIN server}]
    /\ isSyncing' = [isSyncing EXCEPT ![d] = FALSE]
    /\ Finish(d, t)
    /\ returned' = NoReturn
    /\ UNCHANGED <<outsideHook, server, createLog, remote, remoteCalls, nextId, fails, isOnline, pendingScans,
                   storage, deviceId, initPc, netL, appL, accepted, resolved,
                   persisted>>

\* ------------------------------------------------------------- triggers
\* the NetInfo listener, as registered by the effect
NetInfoEvent(d, online) ==
    /\ isOnline' = [isOnline EXCEPT ![d] = online]
    /\ IF online /\ Len(netL[d].pendingScans) > 0
       THEN syncPendingScans(d, netL[d])
       ELSE UNCHANGED <<isSyncing, tasks>>
    /\ returned' = NoReturn
    /\ UNCHANGED <<outsideHook, lastSyncTime, server, createLog, remote, remoteCalls, nextId, fails, pendingScans, storage,
                   scanLogs, deviceId, initPc, accepted, resolved, persisted>>
    /\ Effects(d)

\* an AppState handler that starts the cycle and fetches nothing
AppStateActive_NoRefetch(d) ==
    /\ IF appL[d].isOnline /\ Len(appL[d].pendingScans) > 0
       THEN syncPendingScans(d, appL[d])
       ELSE UNCHANGED <<isSyncing, tasks>>
    /\ returned' = NoReturn
    /\ UNCHANGED <<outsideHook, lastSyncTime, server, createLog, remote, remoteCalls, nextId, fails, isOnline, pendingScans,
                   storage, scanLogs, deviceId, initPc, netL, appL, accepted,
                   resolved, persisted>>

\* the AppState handler, as registered by the effect, on "active":
\* refetchScanLogs() and, with pending scans, syncPendingScans(), both only
\* when the isOnline of its closure is true
AppStateActive(d) ==
    /\ IF appL[d].isOnline
       THEN /\ scanLogs' = [scanLogs EXCEPT ![d] = {server[i] : i \in DOMAIN server}]
            /\ IF Len(appL[d].pendingScans) > 0
               THEN syncPendingScans(d, appL[d])
               ELSE UNCHANGED <<isSyncing, tasks>>
       ELSE UNCHANGED <<scanLogs, isSyncing, tasks>>
    /\ returned' = NoReturn
    /\ UNCHANGED <<outsideHook, lastSyncTime, server, createLog, remote, remoteCalls, nextId, fails, isOnline, pendingScans,
                   storage, deviceId, initPc, netL, appL, accepted,
                   resolved, persisted>>

\* forceSync of the current render: syncPendingScans(), then
\* refetchScanLogs(); when syncPendingScans returns at its guard the fetch
\* follows at once, otherwise the end of the cycle fetches
forceSync(d) ==
    LET c == Closure(isOnline[d], isSyncing[d], pendingScans[d])
        atGuard == c.isSyncing \/ Len(c.pendingScans) = 0
    IN /\ IF ~isOnline[d]
          THEN UNCHANGED <<isSyncing, tasks, scanLogs>>
          ELSE /\ syncPendingScans(d, c)
               /\ scanLogs' = [scanLogs EXCEPT ![d] =
                                  IF atGuard THEN {server[i] : i \in DOMAIN server} ELSE @]
       /\ returned' = NoReturn
       /\ UNCHANGED <<outsideHook, lastSyncTime, server, createLog, remote, remoteCalls, nextId, fails, isOnline, pendingScans,
                      storage, deviceId, initPc, netL, appL, accepted,
                      resolved, persisted>>

\* the scanLogs.list query refetches every POLL_INTERVAL_ONLINE while isOnline
Poll(d) ==
    /\ isOnline[d]
    /\ scanLogs' = [scanLogs EXCEPT ![d] = {server[i] : i \in DOMAIN server}]
    /\ returned' = NoReturn
    /\ UNCHANGED <<outsideHook, lastSyncTime, server, createLog, remote, remoteCalls, nextId, fails, isOnline, isSyncing,
                   pendingScans, storage, deviceId, initPc, netL, appL, tasks,
                   accepted, resolved, persisted>>

\* A create call of another device: a scan of its own (a new id, or one it
\* sent before) reaches scanLogs.create.
RemoteCreate(s) ==
    LET r == CreateResult(server, s)
    IN /\ remoteCalls < MaxRemote
       /\ remoteCalls' = remoteCalls + 1
       /\ remote' = remote \cup {s}
       /\ server' = CreateRows(server, s)
       /\ createLog' = createLog \cup {[scan |-> Row(s), res |-> r]}
       /\ returned' = NoReturn
       /\ UNCHANGED <<outsideHook, lastSyncTime, nextId, fails, isOnline, isSyncing, pendingScans,
                      storage, scanLogs, deviceId, initPc, netL, appL, tasks,
                      accepted, resolved, persisted>>

RemoteScans ==
    remote \cup {NewScan(201 + Cardinality(remote), p, c, RemoteDevice) :
                    p \in Participants, c \in Checkpoints}

Next ==
    \/ \E s \in RemoteScans : RemoteCreate(s)
    \/ \E d \in Devices :
        \/ InitDeviceId(d)
        \/ InitLoad(d)
        \/ \E p \in Participants, c \in Checkpoints : AddScanCall(d, p, c)
        \/ \E t \in Running(d) : AddScanSaved(d, t)
        \/ \E t \in Running(d) : AddScanWriteFail(d, t)
        \/ \E t \in Running(d) : ServerCreate(d, t)
        \/ \E t \in Running(d) : NetworkFail(d, t)
        \/ \E t \in Running(d) : ResponseLost(d, t)
        \/ \E t \in Running(d) : SyncSingleScanReturn(d, t)
        \/ \E t \in Running(d) : CycleFinish(d, t)
        \/ \E t \in Running(d) : BackoffElapsed(d, t)
        \/ \E online \in BOOLEAN : NetInfoEvent(d, online)
        \/ AppStateActive(d)
        \/ forceSync(d)
        \/ Poll(d)

Spec == Init /\ [][Next]_vars

\* The device while connectivity stays up: no NetInfo event arrives.
NextOnline ==
    \/ \E s \in RemoteScans : RemoteCreate(s)
    \/ \E d \in Devices :
        \/ InitDeviceId(d)
        \/ InitLoad(d)
        \/ \E p \in Participants, c \in Checkpoints : AddScanCall(d, p, c)
        \/ \E t \in Running(d) : AddScanSaved(d, t)
        \/ \E t \in Running(d) : AddScanWriteFail(d, t)
        \/ \E t \in Running(d) : ServerCreate(d, t)
        \/ \E t \in Running(d) : NetworkFail(d, t)
        \/ \E t \in Running(d) : ResponseLost(d, t)
        \/ \E t \in Running(d) : SyncSingleScanReturn(d, t)
        \/ \E t \in Running(d) : CycleFinish(d, t)
        \/ \E t \in Running(d) : BackoffElapsed(d, t)
        \/ AppStateActive(d)
        \/ forceSync(d)
        \/ Poll(d)

SpecOnline == Init /\ [][NextOnline]_vars

\* A freshly installed device while every create call is delivered and answered.
NextReliable ==
    \/ \E s \in RemoteScans : RemoteCreate(s)
    \/ \E d \in Devices :
        \/ InitDeviceId(d)
        \/ InitLoad(d)
        \/ \E p \in Participants, c \in Checkpoints : AddScanCall(d, p, c)
        \/ \E t \in Running(d) : AddScanSaved(d, t)
        \/ \E t \in Running(d) : AddScanWriteFail(d, t)
        \/ \E t \in Running(d) : ServerCreate(d, t)
        \/ \E t \in Running(d) : SyncSingleScanReturn(d, t)
        \/ \E t \in Running(d) : CycleFinish(d, t)
        \/ \E online \in BOOLEAN : NetInfoEvent(d, online)
        \/ AppStateActive(d)
        \/ forceSync(d)
        \/ Poll(d)

SpecReliable == InitFresh /\ [][NextReliable]_vars

\* A freshly installed device whose requests the server may refuse as
\* malformed; the network delivers every request and answer.
NextRejecting ==
    \/ \E s \in RemoteScans : RemoteCreate(s)
    \/ \E d \in Devices :
        \/ InitDeviceId(d)
        \/ InitLoad(d)
        \/ \E p \in Participants, c \in Checkpoints : AddScanCall(d, p, c)
        \/ \E t \in Running(d) : AddScanSaved(d, t)
        \/ \E t \in Running(d) : AddScanWriteFail(d, t)
        \/ \E t \in Running(d) : ServerCreate(d, t)
        \/ \E t \in Running(d) : \E form \in RejectForms : ServerRejects(d, t, form)
        \/ \E t \in Running(d) : SyncSingleScanReturn(d, t)
        \/ \E t \in Running(d) : CycleFinish(d, t)
        \/ \E online \in BOOLEAN : NetInfoEvent(d, online)
        \/ AppStateActive(d)
        \/ forceSync(d)
        \/ Poll(d)

SpecRejecting == InitFresh /\ [][NextRejecting]_vars

\* --------------------------------------------- a batch accepted offline
BatchParticipants == <<"P1", "P2", "P3">>

\* the pending list after addScan accepted three scans of distinct keys
BatchScans(d) == [i \in 1..3 |-> NewScan(i, BatchParticipants[i], 1, d)]

\* The device after its init effect, a NetInfo event "offline" and three
\* accepted addScan calls: the scans are in the state and in AsyncStorage,
\* and both listeners were registered by the render of the last append.
InitBatch ==
    /\ server = <<>>
    /\ createLog = {}
    /\ remote = {}
    /\ remoteCalls = 0
    /\ nextId = 4
    /\ fails = 0
    /\ isOnline = [d \in Devices |-> FALSE]
    /\ isSyncing = [d \in Devices |-> FALSE]
    /\ pendingScans = [d \in Devices |-> BatchScans(d)]
    /\ storage = [d \in Devices |-> Stored(BatchScans(d))]
    /\ scanLogs = [d \in Devices |-> {}]
    /\ deviceId = [d \in Devices |-> d]
    /\ initPc = [d \in Devices |-> "done"]
    /\ netL = [d \in Devices |-> Closure(FALSE, FALSE, BatchScans(d))]
    /\ appL = [d \in Devices |-> Closure(FALSE, FALSE, BatchScans(d))]
    /\ tasks = [d \in Devices |-> EmptyBag]
    /\ accepted = [d \in Devices |-> Ids(BatchScans(d))]
    /\ resolved = [d \in Devices |-> {}]
    /\ persisted = [d \in Devices |-> {}]
    /\ returned = NoReturn
    /\ lastSyncTime = [d \in Devices |-> "null"]
    /\ OutsideIdle

\* The batch is synchronised while every create call is delivered and answered.
NextBatch ==
    \/ \E s \in RemoteScans : RemoteCreate(s)
    \/ \E d \in Devices :
        \/ \E t \in Running(d) : ServerCreate(d, t)
        \/ \E t \in Running(d) : SyncSingleScanReturn(d, t)
        \/ \E t \in Running(d) : CycleFinish(d, t)
        \/ \E online \in BOOLEAN : NetInfoEvent(d, online)
        \/ AppStateActive(d)
        \/ forceSync(d)
        \/ Poll(d)

SpecBatch == InitBatch /\ [][NextBatch]_vars

\* The device with its pending batch while the app goes to the background
\* and returns and connectivity comes and goes; the query does not poll.
NextResume ==
    \/ \E s \in RemoteScans : RemoteCreate(s)
    \/ \E d \in Devices :
        \/ \E t \in Running(d) : ServerCreate(d, t)
        \/ \E t \in Running(d) : SyncSingleScanReturn(d, t)
        \/ \E t \in Running(d) : CycleFinish(d, t)
        \/ \E online \in BOOLEAN : NetInfoEvent(d, online)
        \/ AppStateActive(d)

SpecResume == InitBatch /\ [][NextResume]_vars

\* An initialised, freshly installed device on which addScan is called
\* twice: crypto.randomUUID() has two values left, the last of them MaxScans.
InitAdds ==
    /\ server = <<>>
    /\ createLog = {}
    /\ remote = {}
    /\ remoteCalls = 0
    /\ nextId = MaxScans - 1
    /\ fails = 0
    /\ isOnline = [d \in Devices |-> TRUE]
    /\ isSyncing = [d \in Devices |-> FALSE]
    /\ pendingScans = [d \in Devices |-> <<>>]
    /\ storage = [d \in Devices |-> Null]
    /\ scanLogs = [d \in Devices |-> {}]
    /\ deviceId = [d \in Devices |-> d]
    /\ initPc = [d \in Devices |-> "done"]
    /\ netL = [d \in Devices |-> Closure(TRUE, FALSE, <<>>)]
    /\ appL = [d \in Devices |-> Closure(TRUE, FALSE, <<>>)]
    /\ tasks = [d \in Devices |-> EmptyBag]
    /\ accepted = [d \in Devices |-> {}]
    /\ resolved = [d \in Devices |-> {}]
    /\ persisted = [d \in Devices |-> {}]
    /\ returned = NoReturn
    /\ lastSyncTime = [d \in Devices |-> "null"]
    /\ OutsideIdle

NextAdds ==
    \E d \in Devices :
        \/ \E p \in Participants, c \in Checkpoints : AddScanCall(d, p, c)
        \/ \E t \in Running(d) : AddScanSaved(d, t)
        \/ \E t \in Running(d) : ServerCreate(d, t)
        \/ \E t \in Running(d) : SyncSingleScanReturn(d, t)
        \/ \E t \in Running(d) : CycleFinish(d, t)
        \/ \E online \in BOOLEAN : NetInfoEvent(d, online)
        \/ AppStateActive(d)
        \/ Poll(d)

SpecAdds == InitAdds /\ [][NextAdds]_vars

\* ---------------------------------------------------------- getRetryDelay
\* Math.random() * 500, in whole milliseconds
Jitters == 0..(JITTER_MAX - 1)

\* a call getRetryDelay(retryCount) is about to run and draws its jitter
InitDelay ==
    /\ InitHook([d \in Devices |-> Null])
    /\ retry \in [retryCount : 0..MaxRetryCount, jitter : Jitters, delay : {-1}]
    /\ SinkIdle
    /\ ReadersIdle
    /\ DeviceIdIdle
    /\ qr = NoToken
    /\ selection = NoSelection

GetRetryDelay ==
    /\ retry.delay = -1
    /\ retry' = [retry EXCEPT !.delay = getRetryDelay(retry.retryCount, retry.jitter)]
    /\ UNCHANGED <<hookVars, sinkVars, readerVars, selectionVars, deviceIdVars, tokenVars>>

NextDelay == GetRetryDelay

SpecDelay == InitDelay /\ [][NextDelay]_vars

\* ------------------------------------------------------ GoogleSheetsLogger
\* how the fetch of logScanDirect settles: response.ok, a response that is
\* not ok, or a rejection (network error)
SheetOutcomes == {"ok", "notOk", "exception"}

\* logScanDirect without its try / catch: the rejection of fetch propagates
logScanDirect_NoCatch(enabled, outcome) ==
    IF ~enabled THEN "success"
    ELSE IF outcome = "ok" THEN "success"
    ELSE IF outcome = "notOk" THEN "failure"
    ELSE "raised"

\* enabled is what (this.config && this.config.enabled) was when the call began
logScanDirect(enabled, outcome) ==
    IF ~enabled THEN "success"
    ELSE IF outcome = "ok" THEN "success"
    ELSE "failure"

\* push without the test of the queue length
Requeue_Unbounded(queue, uuid) == Append(queue, uuid)

\* if (this.failedScans.length < this.maxRetryQueueSize) this.failedScans.push(scan)
Requeue(queue, uuid) ==
    IF Len(queue) < maxRetryQueueSize THEN Append(queue, uuid) ELSE queue

Overflows(queue) == ~(Len(queue) < maxRetryQueueSize)

\* failed: history, the scans of a tick whose redelivery failed so far
NoSinkTask == [kind |-> "none", scans |-> <<>>, i |-> 0, enabled |-> FALSE,
               bulk |-> FALSE, logged |-> 0, errors |-> 0, failed |-> <<>>]

\* init() waiting for testConnection()
InitTask == [NoSinkTask EXCEPT !.kind = "init"]

\* logScan(scans[i]) waiting for logScanDirect; bulk: called by logScans(scans)
LogTask(scans, bulk) ==
    [NoSinkTask EXCEPT !.kind = "logScan", !.scans = scans, !.i = 1,
                       !.enabled = TRUE, !.bulk = bulk]

\* a tick of the retry processor waiting for logScanDirect(scansToRetry[i])
TickTask(scansToRetry, enabled) ==
    [NoSinkTask EXCEPT !.kind = "tick", !.scans = scansToRetry, !.i = 1,
                       !.enabled = enabled]

SinkRunning == BagToSet(sinkTasks)

SinkHasRoom == BagCardinality(sinkTasks) < MaxSinkTasks

SinkResult(call, uuid, res, logged, errors) ==
    [call |-> call, uuid |-> uuid, res |-> res, logged |-> logged, errors |-> errors]

\* The logger after the module was loaded: init() ran up to its first await.
\* Without the environment variables config is null; with them config is
\* enabled and testConnection() is in flight.
InitSink ==
    /\ InitHook([d \in Devices |-> Null])
    /\ retry = NoDelay
    /\ config \in {"null", "enabled"}
    /\ sinkTasks = IF config = "enabled" THEN SetToBag({InitTask}) ELSE EmptyBag
    /\ failedScans = <<>>
    /\ retryInterval = FALSE
    /\ dropped = {}
    /\ sinkReturned = NoSinkReturn
    /\ nextLog = 1
    /\ ReadersIdle
    /\ DeviceIdIdle
    /\ qr = NoToken
    /\ selection = NoSelection

\* testConnection() settled: a failed test sets config.enabled = false
TestConnectionDone(t, success) ==
    /\ t.kind = "init"
    /\ config' = IF success THEN config ELSE "disabled"
    /\ sinkTasks' = sinkTasks (-) SetToBag({t})
    /\ UNCHANGED <<failedScans, retryInterval, dropped, sinkReturned, nextLog>>
    /\ UNCHANGED <<hookVars, delayVars, readerVars, selectionVars, deviceIdVars, tokenVars>>

\* logScan(scanData) up to its await of logScanDirect
logScan ==
    /\ nextLog <= MaxLog
    /\ nextLog' = nextLog + 1
    /\ IF config # "enabled"
       THEN /\ sinkReturned' = SinkResult("logScan", nextLog, "success", 0, 0)
            /\ UNCHANGED <<retryInterval, sinkTasks>>
       ELSE /\ SinkHasRoom
            /\ retryInterval' = TRUE
            /\ sinkTasks' = sinkTasks (+) SetToBag({LogTask(<<nextLog>>, FALSE)})
            /\ UNCHANGED sinkReturned
    /\ UNCHANGED <<config, failedScans, dropped>>
    /\ UNCHANGED <<hookVars, delayVars, readerVars, selectionVars, deviceIdVars, tokenVars>>

\* logScans(scans) up to the await of logScanDirect in its first logScan
logScans(n) ==
    LET scans == [k \in 1..n |-> nextLog + k - 1]
    IN /\ nextLog + n - 1 <= MaxLog
       /\ nextLog' = nextLog + n
       /\ IF config # "enabled"
          THEN /\ sinkReturned' = SinkResult("logScans", scans[1], "success", 0, 0)
               /\ UNCHANGED <<retryInterval, sinkTasks>>
          ELSE /\ SinkHasRoom
               /\ retryInterval' = TRUE
               /\ sinkTasks' = sinkTasks (+) SetToBag({LogTask(scans, TRUE)})
               /\ UNCHANGED sinkReturned
       /\ UNCHANGED <<config, failedScans, dropped>>
       /\ UNCHANGED <<hookVars, delayVars, readerVars, selectionVars, deviceIdVars, tokenVars>>

\* logScanDirect settled inside logScan: a failed scan goes to the retry
\* queue if it has room, and logScan returns the result; logScans counts it
\* and goes on with the next scan or returns its totals.
LogScanDirectDone(t, outcome) ==
    LET result == logScanDirect(t.enabled, outcome)
        scan == t.scans[t.i]
        logged == t.logged + (IF result = "success" THEN 1 ELSE 0)
        errors == t.errors + (IF result = "success" THEN 0 ELSE 1)
    IN /\ t.kind = "logScan"
       /\ IF result = "raised"
          THEN /\ sinkReturned' = SinkResult(IF t.bulk THEN "logScans" ELSE "logScan",
                                             scan, "raised", t.logged, t.errors)
               /\ sinkTasks' = sinkTasks (-) SetToBag({t})
               /\ UNCHANGED <<failedScans, dropped>>
          ELSE /\ failedScans' = IF result = "failure"
                                 THEN Requeue(failedScans, scan) ELSE failedScans
               /\ dropped' = IF result = "failure" /\ Overflows(failedScans)
                             THEN dropped \cup {[uuid |-> scan, warned |-> FALSE]}
                             ELSE dropped
               /\ IF ~t.bulk
                  THEN /\ sinkReturned' = SinkResult("logScan", scan, result, 0, 0)
                       /\ sinkTasks' = sinkTasks (-) SetToBag({t})
                  ELSE IF t.i < Len(t.scans)
                  THEN /\ sinkTasks' = (sinkTasks (-) SetToBag({t})) (+)
                              SetToBag({[t EXCEPT !.i = t.i + 1,
                                                  !.enabled = (config = "enabled"),
                                                  !.logged = logged, !.errors = errors]})
                       /\ UNCHANGED sinkReturned
                  ELSE /\ sinkReturned' =
                              SinkResult("logScans", scan,
                                         IF errors = 0 THEN "success" ELSE "failure",
                                         logged, errors)
                       /\ sinkTasks' = sinkTasks (-) SetToBag({t})
       /\ UNCHANGED <<config, retryInterval, nextLog>>
       /\ UNCHANGED <<hookVars, delayVars, readerVars, selectionVars, deviceIdVars, tokenVars>>

\* the callback of the retry processor's setInterval, up to its first await:
\* it takes the whole queue and calls logScanDirect for its first scan
startRetryProcessor ==
    /\ retryInterval
    /\ IF Len(failedScans) = 0
       THEN UNCHANGED <<failedScans, sinkTasks>>
       ELSE /\ SinkHasRoom
            /\ failedScans' = <<>>
            /\ sinkTasks' = sinkTasks (+) SetToBag({TickTask(failedScans, config = "enabled")})
    /\ UNCHANGED <<config, retryInterval, dropped, sinkReturned, nextLog>>
    /\ UNCHANGED <<hookVars, delayVars, readerVars, selectionVars, deviceIdVars, tokenVars>>

\* logScanDirect settled inside a tick: a scan that still fails goes back to
\* the queue if it has room, else it is dropped with console.error
RetryDirectDone(t, outcome) ==
    LET result == logScanDirect(t.enabled, outcome)
        scan == t.scans[t.i]
    IN /\ t.kind = "tick"
       /\ IF result = "raised"
          THEN /\ sinkTasks' = sinkTasks (-) SetToBag({t})
               /\ UNCHANGED <<failedScans, dropped>>
          ELSE /\ failedScans' = IF result = "failure"
                                 THEN Requeue(failedScans, scan) ELSE failedScans
               /\ dropped' = IF result = "failure" /\ Overflows(failedScans)
                             THEN dropped \cup {[uuid |-> scan, warned |-> TRUE]}
                             ELSE dropped
               /\ IF t.i < Len(t.scans)
                  THEN sinkTasks' = (sinkTasks (-) SetToBag({t})) (+)
                           SetToBag({[t EXCEPT !.i = t.i + 1,
                                               !.enabled = (config = "enabled"),
                                               !.failed = IF result = "failure"
                                                          THEN Append(@, scan) ELSE @]})
                  ELSE sinkTasks' = sinkTasks (-) SetToBag({t})
       /\ UNCHANGED <<config, retryInterval, sinkReturned, nextLog>>
       /\ UNCHANGED <<hookVars, delayVars, readerVars, selectionVars, deviceIdVars, tokenVars>>

NextSink ==
    \/ \E t \in SinkRunning, success \in BOOLEAN : TestConnectionDone(t, success)
    \/ logScan
    \/ \E n \in 1..MaxBulk : logScans(n)
    \/ \E t \in SinkRunning, outcome \in SheetOutcomes : LogScanDirectDone(t, outcome)
    \/ startRetryProcessor
    \/ \E t \in SinkRunning, outcome \in SheetOutcomes : RetryDirectDone(t, outcome)

SpecSink == InitSink /\ [][NextSink]_vars

\* The retry processor on its own: scans that failed earlier wait in the
\* queue, the interval is set, and no logScan call arrives.
QueuedScans ==
    {<<a>> : a \in 1..MaxLog} \cup
    {q \in {<<a, b>> : a \in 1..MaxLog, b \in 1..MaxLog} : q[1] # q[2]}

InitTick ==
    /\ InitHook([d \in Devices |-> Null])
    /\ retry = NoDelay
    /\ config \in {"enabled", "disabled"}
    /\ sinkTasks = EmptyBag
    /\ failedScans \in {q \in QueuedScans : Len(q) <= maxRetryQueueSize}
    /\ retryInterval = TRUE
    /\ dropped = {}
    /\ sinkReturned = SinkResult("logScan", failedScans[Len(failedScans)], "failure", 0, 0)
    /\ nextLog = MaxLog + 1
    /\ ReadersIdle
    /\ DeviceIdIdle
    /\ qr = NoToken
    /\ selection = NoSelection

NextTick ==
    \/ startRetryProcessor
    \/ \E t \in SinkRunning, outcome \in SheetOutcomes : RetryDirectDone(t, outcome)

SpecTick == InitTick /\ [][NextTick]_vars

\* ------------------------------------------- readers of the snapshot
\* scanLogs.list answers with every row of the table
ListRows(srv) == {srv[i] : i \in DOMAIN srv}

\* a reader that keeps the data of its first fetch (a cache that never goes stale)
ReaderPoll_Cached(r) ==
    /\ readerLogs' = [readerLogs EXCEPT ![r] = IF readerAt[r] = -1 THEN ListRows(server) ELSE @]
    /\ readerAt' = [readerAt EXCEPT ![r] = Len(server)]
    /\ UNCHANGED <<hookVars, delayVars, sinkVars, selectionVars, deviceIdVars, tokenVars>>

\* the reader's poll interval elapsed: it fetches scanLogs.list
ReaderPoll(r) ==
    /\ readerLogs' = [readerLogs EXCEPT ![r] = ListRows(server)]
    /\ readerAt' = [readerAt EXCEPT ![r] = Len(server)]
    /\ UNCHANGED <<hookVars, delayVars, sinkVars, selectionVars, deviceIdVars, tokenVars>>

\* A freshly installed device and the remote device write, two readers poll;
\* every create call is delivered and answered.
NextReaders ==
    \/ \E s \in RemoteScans : RemoteCreate(s)
    \/ \E r \in Readers : ReaderPoll(r)
    \/ \E d \in Devices :
        \/ InitDeviceId(d)
        \/ InitLoad(d)
        \/ \E p \in Participants, c \in Checkpoints : AddScanCall(d, p, c)
        \/ \E t \in Running(d) : AddScanSaved(d, t)
        \/ \E t \in Running(d) : ServerCreate(d, t)
        \/ \E t \in Running(d) : SyncSingleScanReturn(d, t)
        \/ \E t \in Running(d) : CycleFinish(d, t)
        \/ \E online \in BOOLEAN : NetInfoEvent(d, online)
        \/ AppStateActive(d)

SpecReaders == InitFresh /\ [][NextReaders]_vars


\* ------------------------------------------------- batch of a sync cycle
\* The retryCounts of a pending list of n scans: scan i has
\* (stride * i + offset) % MAX_RETRIES, a value the store can hold (the
\* catch of syncSingleScan drops a scan that reaches MAX_RETRIES).
Strides == {0, 1, 3, 9}

Offsets == 0..(MAX_RETRIES - 1)

PendingList(n, stride, offset) ==
    [i \in 1..n |->
        [NewScan(i, "P1", i, "A") EXCEPT
            !.retryCount = (stride * i + offset) % MAX_RETRIES]]

\* syncPendingScans is about to sort and slice the pending list it read
InitSelection ==
    /\ InitHook([d \in Devices |-> Null])
    /\ retry = NoDelay
    /\ SinkIdle
    /\ ReadersIdle
    /\ DeviceIdIdle
    /\ qr = NoToken
    /\ \E n \in 0..MaxPending, stride \in Strides, offset \in Offsets :
          selection = [pendingScans |-> PendingList(n, stride, offset),
                       scansToSync |-> <<>>, done |-> FALSE]

\* const sortedScans = [...pendingScans].sort(...);
\* const scansToSync = sortedScans.slice(0, BATCH_SIZE)
SelectBatch ==
    /\ ~selection.done
    /\ selection' = [selection EXCEPT !.scansToSync = ScansToSync(selection.pendingScans),
                                      !.done = TRUE]
    /\ UNCHANGED <<hookVars, delayVars, sinkVars, readerVars, deviceIdVars, tokenVars>>

NextSelection == SelectBatch

SpecSelection == InitSelection /\ [][NextSelection]_vars


\* ---------------------------------------------------- getOrCreateDeviceId
\* an instance of the hook mounts: its init effect calls getOrCreateDeviceId,
\* which awaits AsyncStorage.getItem(DEVICE_ID)
GetOrCreateCall(c) ==
    /\ idCalls[c].pc = "idle"
    /\ idCalls' = [idCalls EXCEPT ![c].pc = "getItem"]
    /\ UNCHANGED <<deviceIdItem, nextUuid, restarts, idReturned>>
    /\ UNCHANGED <<hookVars, delayVars, sinkVars, readerVars, selectionVars, tokenVars>>

\* getItem resolved: the stored id is returned; without one a new id is
\* drawn and the call awaits setItem
GetItemDone(c) ==
    /\ idCalls[c].pc = "getItem"
    /\ IF deviceIdItem # 0
       THEN /\ idCalls' = [idCalls EXCEPT ![c] = [pc |-> "done", deviceId |-> deviceIdItem]]
            /\ idReturned' = idReturned \cup {deviceIdItem}
            /\ UNCHANGED nextUuid
       ELSE /\ idCalls' = [idCalls EXCEPT ![c] = [pc |-> "setItem", deviceId |-> nextUuid]]
            /\ nextUuid' = nextUuid + 1
            /\ UNCHANGED idReturned
    /\ UNCHANGED <<deviceIdItem, restarts>>
    /\ UNCHANGED <<hookVars, delayVars, sinkVars, readerVars, selectionVars, tokenVars>>

\* setItem resolved: the id of this call is stored and returned
SetItemDone(c) ==
    /\ idCalls[c].pc = "setItem"
    /\ deviceIdItem' = idCalls[c].deviceId
    /\ idCalls' = [idCalls EXCEPT ![c].pc = "done"]
    /\ idReturned' = idReturned \cup {idCalls[c].deviceId}
    /\ UNCHANGED <<nextUuid, restarts>>
    /\ UNCHANGED <<hookVars, delayVars, sinkVars, readerVars, selectionVars, tokenVars>>

\* the process restarts: the calls are gone, AsyncStorage stays
Restart ==
    /\ restarts < MaxRestarts
    /\ restarts' = restarts + 1
    /\ idCalls' = [c \in Callers |-> NoCall]
    /\ UNCHANGED <<deviceIdItem, nextUuid, idReturned>>
    /\ UNCHANGED <<hookVars, delayVars, sinkVars, readerVars, selectionVars, tokenVars>>

NextDeviceId ==
    \/ \E c \in Callers : GetOrCreateCall(c)
    \/ \E c \in Callers : GetItemDone(c)
    \/ \E c \in Callers : SetItemDone(c)
    \/ Restart

SpecDeviceId == InitFresh /\ [][NextDeviceId]_vars


\* ------------------------------------------------------- generateQRToken
Timestamps == 0..MaxTimestamp

Randoms == 0..MaxRandom

Uuids == 0..MaxUuid

\* the tokens the loop can build, and the tokens the fallback can build
ShortTokens == {Token("short", ts, rnd) : ts \in Timestamps, rnd \in Randoms}

UuidTokens == {Token("uuid", u, 0) : u \in Uuids}

\* generateQRToken is called with a list of existing tokens
InitToken ==
    /\ InitHook([d \in Devices |-> Null])
    /\ retry = NoDelay
    /\ SinkIdle
    /\ ReadersIdle
    /\ DeviceIdIdle
    /\ selection = NoSelection
    /\ \E existingTokens \in SUBSET (ShortTokens \cup UuidTokens) :
          qr = [NoToken EXCEPT !.existingTokens = existingTokens]

\* one pass of the while loop: the token of Date.now() and Math.random() is
\* returned unless existingSet has it
Attempt(ts, rnd) ==
    LET token == Token("short", ts, rnd)
    IN /\ ~qr.done
       /\ qr.attempts < maxAttempts
       /\ qr' = IF token \notin qr.existingTokens
                THEN [qr EXCEPT !.token = token, !.done = TRUE]
                ELSE [qr EXCEPT !.attempts = @ + 1]
       /\ UNCHANGED <<hookVars, delayVars, sinkVars, readerVars, selectionVars, deviceIdVars>>

\* after maxAttempts collisions: the token of crypto.randomUUID() is returned
Fallback(u) ==
    /\ ~qr.done
    /\ qr.attempts = maxAttempts
    /\ qr' = [qr EXCEPT !.token = Token("uuid", u, 0), !.done = TRUE]
    /\ UNCHANGED <<hookVars, delayVars, sinkVars, readerVars, selectionVars, deviceIdVars>>

NextToken ==
    \/ \E ts \in Timestamps, rnd \in Randoms : Attempt(ts, rnd)
    \/ \E u \in Uuids : Fallback(u)

SpecToken == InitToken /\ [][NextToken]_vars


\* ------------------------------------------------------------ allScanLogs
\* an entry of the list the hook exposes
LogEntry(row, synced) ==
    [id |-> row.id, participantId |-> row.participantId,
     checkpointId |-> row.checkpointId, deviceId |-> row.deviceId, synced |-> synced]

\* [...scanLogs, ...pendingScans.map(p => ({ ...p, synced: false }))]
allScanLogs(d) ==
    {LogEntry(row, TRUE) : row \in scanLogs[d]} \cup
    {LogEntry(pendingScans[d][i], FALSE) : i \in DOMAIN pendingScans[d]}


\* ------------------------------------------------- one cycle, to its end
\* The device of InitBatch after NetInfo reported "online" (the AppState
\* effect re-registered) and the app returned to the foreground: the handler
\* has just started a cycle over the three scans.  The last scan has failed
\* rc times in an earlier cycle.
InitCycle ==
    \E rc \in {0, 1} :
        LET list == [BatchScans("A") EXCEPT ![3].retryCount = rc]
        IN /\ server = <<>>
           /\ createLog = {}
           /\ remote = {}
           /\ remoteCalls = 0
           /\ nextId = 4
           /\ fails = 0
           /\ isOnline = [d \in Devices |-> TRUE]
           /\ isSyncing = [d \in Devices |-> TRUE]
           /\ pendingScans = [d \in Devices |-> list]
           /\ storage = [d \in Devices |-> Stored(list)]
           /\ scanLogs = [d \in Devices |-> {}]
           /\ deviceId = [d \in Devices |-> d]
           /\ initPc = [d \in Devices |-> "done"]
           /\ netL = [d \in Devices |-> Closure(FALSE, FALSE, list)]
           /\ appL = [d \in Devices |-> Closure(TRUE, FALSE, list)]
           /\ tasks = [d \in Devices |-> SetToBag({CycleTask(list)})]
           /\ accepted = [d \in Devices |-> Ids(list)]
           /\ resolved = [d \in Devices |-> {}]
           /\ persisted = [d \in Devices |-> {}]
           /\ returned = NoReturn
           /\ lastSyncTime = [d \in Devices |-> "null"]
           /\ OutsideIdle

\* a syncPendingScans whose catch is not followed by a finally
CycleAborts_NoFinally(d, t) ==
    /\ t.kind = "cycle"
    /\ t.res \in {"err", "end"}
    /\ Finish(d, t)
    /\ returned' = NoReturn
    /\ UNCHANGED <<outsideHook, lastSyncTime, server, createLog, remote, remoteCalls, nextId, fails, isOnline, isSyncing,
                   pendingScans, storage, scanLogs, deviceId, initPc, netL, appL,
                   accepted, resolved, persisted>>

\* An AsyncStorage.setItem of the cycle rejects: the write of the list in the
\* catch of syncSingleScan (res "err") or that of LAST_SYNC after the loop
\* (res "end").  The exception leaves the try of syncPendingScans: nothing is
\* stored, the catch sets syncError, finally setIsSyncing(false).
CycleAborts(d, t) ==
    /\ t.kind = "cycle"
    /\ t.res \in {"err", "end"}
    /\ isSyncing' = [isSyncing EXCEPT ![d] = FALSE]
    /\ Finish(d, t)
    /\ returned' = NoReturn
    /\ UNCHANGED <<outsideHook, lastSyncTime, server, createLog, remote, remoteCalls, nextId, fails, isOnline,
                   pendingScans, storage, scanLogs, deviceId, initPc, netL, appL,
                   accepted, resolved, persisted>>

NextCycle ==
    \/ \E s \in RemoteScans : RemoteCreate(s)
    \/ \E d \in Devices :
        \/ \E t \in Running(d) : ServerCreate(d, t)
        \/ \E t \in Running(d) : NetworkFail(d, t)
        \/ \E t \in Running(d) : ResponseLost(d, t)
        \/ \E t \in Running(d) : BackoffElapsed(d, t)
        \/ \E t \in Running(d) : SyncSingleScanReturn(d, t)
        \/ \E t \in Running(d) : CycleFinish(d, t)
        \/ \E t \in Running(d) : CycleAborts(d, t)

\* Every create call settles, every timer fires and every await of the
\* cycle resumes.
FairCycle ==
    \A d \in Devices :
        /\ WF_vars(\E t \in Running(d) :
                      ServerCreate(d, t) \/ NetworkFail(d, t) \/ ResponseLost(d, t))
        /\ WF_vars(\E t \in Running(d) : BackoffElapsed(d, t))
        /\ WF_vars(\E t \in Running(d) : SyncSingleScanReturn(d, t) \/ CycleAborts(d, t))
        /\ WF_vars(\E t \in Running(d) : CycleFinish(d, t) \/ CycleAborts(d, t))

SpecCycle == InitCycle /\ [][NextCycle]_vars /\ FairCycle


\* ======================================================================
\* Properties
\* ======================================================================
SameKey(a, b) ==
    a.participantId = b.participantId /\ a.checkpointId = b.checkpointId

\* a task of the bag that this step took out of it (it returned or moved on)
Left(d, t) == CopiesIn(t, tasks'[d]) < CopiesIn(t, tasks[d])

\* C1: the authoritative store never holds two rows with the same
\* (participantId, checkpointId), whatever the device and the other devices
\* sent and in whatever order.
C1_GlobalUniqueness ==
    \A i, j \in DOMAIN server : SameKey(server[i], server[j]) => i = j

\* two devices sent the same key: one row, the other call answered duplicate
C1_Witness ==
    \E i \in DOMAIN server : \E e \in createLog :
        /\ SameKey(e.scan, server[i])
        /\ e.scan.id # server[i].id
        /\ e.scan.deviceId # server[i].deviceId
        /\ e.res = "dup"

\* C2: a scan addScan answered success for is in the Pending Store until a
\* dispatch of it has returned success or duplicate (the hook keeps no
\* Abandoned record).
C2_NoSilentLoss ==
    \A d \in Devices : \A id \in accepted[d] :
        id \in Ids(pendingScans[d]) \/ id \in resolved[d]

\* C3: of the create calls that share a key, exactly one is answered
\* accepted and every call with another id is answered duplicate.
C3_ExactlyOneAccepted ==
    \A e \in createLog :
        \E w \in createLog :
            /\ SameKey(w.scan, e.scan)
            /\ w.res = "ok"
            /\ \A o \in createLog :
                  (SameKey(o.scan, e.scan) /\ o.scan.id # w.scan.id) => o.res = "dup"

\* two calls with distinct ids for one key have been answered
C3_Witness ==
    \E e, o \in createLog :
        /\ SameKey(e.scan, o.scan)
        /\ e.scan.id # o.scan.id
        /\ e.res = "ok"
        /\ o.res = "dup"

\* C4: a create call for an id the store already holds is answered
\* duplicate, and no step changes the rows except by appending one row whose
\* id the store did not hold.
C4_ResubmissionIdempotent ==
    [][/\ \A e \in createLog' \ createLog :
              e.scan.id \in Ids(server) => e.res = "dup"
       /\ \A d \in Devices : \A u \in BagToSet(tasks'[d]) :
              (u.res = "ok" /\ CopiesIn(u, tasks'[d]) > CopiesIn(u, tasks[d]))
                  => u.scan.id \notin Ids(server)
       /\ server' # server =>
              /\ Len(server') = Len(server) + 1
              /\ SubSeq(server', 1, Len(server)) = server
              /\ server'[Len(server')].id \notin Ids(server)]_vars

\* an id was accepted, sent again and answered duplicate; the store has one row of it
C4_Witness ==
    \E e, o \in createLog :
        /\ e.scan.id = o.scan.id
        /\ e.res = "ok"
        /\ o.res = "dup"
        /\ Cardinality({i \in DOMAIN server : server[i].id = e.scan.id}) = 1

\* C5 (its safety half): an accepted scan below the retry ceiling that is
\* not yet in the authoritative store, and whose dispatch has not returned
\* duplicate, is observable in the Pending Store.
C5_PendingUntilConfirmed ==
    \A d \in Devices : \A id \in accepted[d] :
        (id \notin Ids(server) /\ id \notin resolved[d]) => id \in Ids(pendingScans[d])

\* the hook keeps no dead-letter record: a scan filtered out at the ceiling is
\* in no list afterwards
DeadLetter(d) == {}

\* C6: when a dispatch failure brings a scan's retryCount to MAX_RETRIES the
\* scan is in a dead-letter record afterwards.
C6_CeilingKeepsRecord ==
    [][\A d \in Devices : \A t \in Running(d) :
          (/\ t.res = "err"
           /\ Left(d, t)
           /\ \E i \in DOMAIN t.snap : /\ t.snap[i].id = t.scan.id
                                       /\ t.snap[i].retryCount + 1 >= MAX_RETRIES)
              => t.scan.id \in DeadLetter(d)]_vars

CyclesRunning(d) ==
    BagCardinality([t \in {u \in Running(d) : u.kind = "cycle"} |-> CopiesIn(t, tasks[d])])

\* C7: at most one sync cycle executes on a device at any time.
C7_SingleFlight == \A d \in Devices : CyclesRunning(d) <= 1

\* C8: once the initial load is done, the scans that were in durable storage
\* when the process started are in the Pending Store until their dispatch
\* returned success or duplicate.
C8_PersistedSurvive ==
    \A d \in Devices :
        initPc[d] = "done" =>
            \A id \in persisted[d] : id \in Ids(pendingScans[d]) \/ id \in resolved[d]

\* C9: when addScan answers success the pending list with the new scan is in
\* durable storage; a failed write never ends in an answer of success.
C9_DurableBeforeSuccess ==
    returned.res = "success" =>
        /\ storage[returned.dev].has
        /\ \E i \in DOMAIN StoredList(storage[returned.dev]) :
              StoredList(storage[returned.dev])[i] = returned.scan

\* addScan has just answered success
C9_Witness ==
    /\ returned.res = "success"
    /\ returned.scan.id \in Ids(StoredList(storage[returned.dev]))
    /\ returned.scan.id \in accepted[returned.dev]

\* C10: addScan answers duplicate only for a key the local index knows; for
\* any other key, online or offline, the only answers are success, with the
\* scan appended to the Pending Store, given whenever the durable write
\* completes, and the exception of a failed durable write.
C10_ConnectivityNeverRejects ==
    [][\A d \in Devices :
          /\ (returned'.dev = d /\ returned' # returned /\ returned'.res # "success")
                => \/ /\ returned'.res = "duplicate"
                      /\ isDuplicateScan(scanLogs[d], pendingScans[d],
                                         returned'.scan.participantId,
                                         returned'.scan.checkpointId)
                   \/ /\ returned'.res = "threw"
                      /\ \E t \in Running(d) : t.kind = "add" /\ t.scan = returned'.scan
                      /\ storage'[d] = storage[d]
          /\ (returned'.dev = d /\ returned'.res = "success")
                => \E i \in DOMAIN pendingScans'[d] : pendingScans'[d][i] = returned'.scan
          /\ \A t \in Running(d) :
                (t.kind = "add" /\ t.scan.id \in Ids(StoredList(storage'[d])))
                    => (returned'.res = "success" /\ returned'.scan = t.scan)]_vars

\* addScan has just answered success while the device was offline
C10_Witness ==
    /\ returned.res = "success"
    /\ ~returned.online
    /\ ~isOnline[returned.dev]
    /\ returned.scan.id \in Ids(pendingScans[returned.dev])

\* C11: in every step in which the device goes from offline to online while
\* the Pending Store is not empty, a sync cycle is executing afterwards.
C11_OnlineStartsCycle ==
    [][\A d \in Devices :
          (~isOnline[d] /\ isOnline'[d] /\ Len(pendingScans[d]) > 0)
              => \E u \in BagToSet(tasks'[d]) : u.kind = "cycle"]_vars

\* C12: when a sync cycle whose batch is the three scans accepted offline
\* ends, every dispatch of it having been answered success or duplicate, the
\* Pending Store is empty.
C12_CycleEmptiesStore ==
    [][\A d \in Devices : \A t \in Running(d) :
          (/\ t.kind = "cycle"
           /\ t.res = "end"
           /\ Left(d, t)
           /\ Ids(t.batch) = Ids(BatchScans(d)))
              => Len(pendingScans'[d]) = 0]_vars

\* C13: the delay getRetryDelay(k) returns with jitter j is
\* min(BASE_RETRY_DELAY * 2^k + j, MAX_RETRY_DELAY): never above
\* MAX_RETRY_DELAY, within [BASE * 2^k, BASE * 2^k + JITTER_MAX] whenever that
\* interval is below the cap, and the cap itself once BASE * 2^k reaches it.
C13_BackoffBounds ==
    retry.delay # -1 =>
        LET base == BASE_RETRY_DELAY * 2^retry.retryCount
        IN /\ retry.delay <= MAX_RETRY_DELAY
           /\ retry.delay >= BASE_RETRY_DELAY
           /\ base + JITTER_MAX <= MAX_RETRY_DELAY =>
                 /\ retry.delay >= base
                 /\ retry.delay <= base + JITTER_MAX
                 /\ retry.delay = base + retry.jitter
           /\ base >= MAX_RETRY_DELAY => retry.delay = MAX_RETRY_DELAY

\* getRetryDelay has capped a delay: 32000 plus a positive jitter became 30000
C13_Witness ==
    /\ retry.delay = MAX_RETRY_DELAY
    /\ retry.jitter > 0
    /\ BASE_RETRY_DELAY * 2^retry.retryCount + retry.jitter > MAX_RETRY_DELAY

\* C14: the retry queue failedScans never holds more than maxRetryQueueSize
\* scans, however logScan calls and retry ticks, overlapping ones included,
\* interleave.
C14_QueueBounded == Len(failedScans) <= maxRetryQueueSize

\* the queue is at capacity after a retry tick found it full and dropped a scan
C14_Witness ==
    /\ Len(failedScans) = maxRetryQueueSize
    /\ \E e \in dropped : e.warned

\* C15: every scan discarded because the retry queue was at capacity, in
\* logScan or in a retry tick, was discarded with a logged message.
C15_DropsAreLogged == \A e \in dropped : e.warned

\* C20: logScan and logScans never raise: whatever the sheet call does
\* (response ok, response not ok, network exception) and whether or not the
\* logger is configured and enabled, the call settles with a result value,
\* and the totals logScans returns say success exactly when no scan failed.
C20_SinkNeverRaises ==
    /\ sinkReturned.res \in {"none", "success", "failure"}
    /\ sinkReturned.call = "logScans" =>
          (sinkReturned.res = "success") = (sinkReturned.errors = 0)

\* a logScan call whose sheet call failed has resolved with a failure result
\* and its scan waits in the retry queue
C20_Witness ==
    /\ sinkReturned.call = "logScan"
    /\ sinkReturned.res = "failure"
    /\ \E i \in DOMAIN failedScans : failedScans[i] = sinkReturned.uuid

HasKey(list, p, c) ==
    \E i \in DOMAIN list : list[i].participantId = p /\ list[i].checkpointId = c

\* C16: when addScan has just answered duplicate for a key of which the
\* authoritative store holds no record, the answer was caused by a pending
\* scan of that key, and that scan stays in the Pending Store until the store
\* holds a record of the key: the step after the answer does not remove it.
C16_NoFalsePositive ==
    [][\A d \in Devices :
          LET p == returned.scan.participantId
              c == returned.scan.checkpointId
          IN (/\ returned.res = "duplicate"
              /\ returned.dev = d
              /\ ~HasKey(server, p, c))
                => \/ HasKey(pendingScans'[d], p, c)
                   \/ HasKey(server', p, c)]_vars

\* the device is online, no call is in flight and the dispatch of every
\* accepted scan has returned success or duplicate
AllDispatched(d) ==
    /\ isOnline[d]
    /\ tasks[d] = EmptyBag
    /\ accepted[d] \subseteq resolved[d]

\* the reader's last fetch happened after the last write to the store
PolledSinceLastWrite(r) == readerAt[r] = Len(server)

C18_DispatchFailureAbsorbed ==
    [][\A d \in Devices : \A t \in Running(d) :
          /\ (t.kind = "add" /\ Left(d, t) /\ t.scan.id \in Ids(pendingScans'[d]))
                => returned' = Return(d, t.scan, "success", t.online)
          /\ (t.kind = "dispatch" /\ Left(d, t))
                => returned' = NoReturn]_vars

\* the immediate dispatch of a scan addScan answered success for has failed
C18_Witness ==
    \E d \in Devices : \E t \in Running(d) :
        /\ t.kind = "dispatch"
        /\ t.res = "err"
        /\ t.scan.id \in accepted[d]

Serialized(d, t) ==
    IF t.kind = "add" THEN Append(pendingScans[d], t.scan)
    ELSE IF t.res = "err" THEN OnDispatchErr(pendingScans[d], t.scan)
    ELSE OnDispatchOk(pendingScans[d], t.scan)

\* the step completes the read-modify-persist sequence of task t
Persists(d, t) ==
    /\ Left(d, t)
    /\ storage'[d] # storage[d] \/ pendingScans'[d] # pendingScans[d]
    /\ \/ t.kind = "add"
       \/ t.kind \in {"dispatch", "cycle"} /\ t.res \in {"ok", "dup", "err"}

\* C21: every read-modify-persist sequence on the pending list (the append of
\* addScan, the removal or retryCount update of syncSingleScan) saves the list
\* its mutation gives when applied to the list the store holds at that
\* moment: no update made in the meantime is overwritten.
C21_MutationsSerialized ==
    [][\A d \in Devices : \A t \in Running(d) :
          Persists(d, t) => pendingScans'[d] = Serialized(d, t)]_vars

\* C22: when a dispatch of scan e has returned success or duplicate, e is
\* not in the Pending Store and every other scan that was in it immediately
\* before the removal still is.
C22_RemovalKeepsOthers ==
    [][\A d \in Devices : \A t \in Running(d) :
          (/\ t.kind \in {"dispatch", "cycle"}
           /\ t.res \in {"ok", "dup"}
           /\ Left(d, t))
              => /\ t.scan.id \notin Ids(pendingScans'[d])
                 /\ \A id \in Ids(pendingScans[d]) \ {t.scan.id} :
                       id \in Ids(pendingScans'[d])]_vars

\* C23: when a dispatch of scan e has failed transiently and e is in the
\* Pending Store with retryCount k, then after syncSingleScan returned e is
\* in the store with retryCount k + 1, provided k + 1 is below MAX_RETRIES.
C23_RetryCountIncremented ==
    [][\A d \in Devices : \A t \in Running(d) :
          (/\ t.kind \in {"dispatch", "cycle"}
           /\ t.res = "err"
           /\ Left(d, t))
              => \A i \in DOMAIN pendingScans[d] :
                    (/\ pendingScans[d][i].id = t.scan.id
                     /\ pendingScans[d][i].retryCount + 1 < MAX_RETRIES)
                        => \E j \in DOMAIN pendingScans'[d] :
                              /\ pendingScans'[d][j].id = t.scan.id
                              /\ pendingScans'[d][j].retryCount =
                                    pendingScans[d][i].retryCount + 1]_vars

\* C24: the batch of a sync cycle holds at most BATCH_SIZE scans of the
\* snapshot, each once, in ascending order of retryCount, and every scan in
\* it has a retryCount not greater than that of any scan of the snapshot
\* left out; no scan is left out while the batch has room.
C24_BatchByRetryCount ==
    selection.done =>
        LET snap == selection.pendingScans
            b == selection.scansToSync
            out == Ids(snap) \ Ids(b)
        IN /\ Len(b) = Min(Len(snap), BATCH_SIZE)
           /\ \A i \in DOMAIN b : \E j \in DOMAIN snap : b[i] = snap[j]
           /\ Cardinality(Ids(b)) = Len(b)
           /\ \A i, j \in DOMAIN b : i < j => b[i].retryCount <= b[j].retryCount
           /\ \A i \in DOMAIN b : \A j \in DOMAIN snap :
                 snap[j].id \in out => b[i].retryCount <= snap[j].retryCount

\* a list longer than BATCH_SIZE: the batch is full, and a scan it leaves out
\* stands in the list before a scan it holds
C24_Witness ==
    /\ selection.done
    /\ Len(selection.pendingScans) > BATCH_SIZE
    /\ Len(selection.scansToSync) = BATCH_SIZE
    /\ \E i, j \in DOMAIN selection.pendingScans :
          /\ i < j
          /\ selection.pendingScans[i].id \notin Ids(selection.scansToSync)
          /\ selection.pendingScans[j].id \in Ids(selection.scansToSync)

\* C25: a sync cycle never waits out the backoff of a scan: a scan whose
\* backoff has not elapsed is passed over, so no cycle ever sits in a backoff
\* timer while the scans after it in the batch stay undispatched.
C25_CycleNeverWaits ==
    \A d \in Devices : \A t \in Running(d) : ~(t.kind = "cycle" /\ t.res = "wait")

\* C26: a request the authoritative side refused as malformed is fatal for
\* its scan: once syncSingleScan has returned from such a dispatch the scan
\* is no longer in the Pending Store, so no later cycle dispatches it again
\* (in particular it is not left there with an unchanged retryCount).
C26_RejectionIsFatal ==
    [][\A d \in Devices : \A t \in Running(d) :
          (t.res \in RejectForms /\ Left(d, t))
              => t.scan.id \notin Ids(pendingScans'[d])]_vars

\* the answer success or duplicate to a dispatch of the scan has arrived and
\* syncSingleScan is about to remove the scan
AnswerInHand(d, id) ==
    \E t \in Running(d) : t.scan.id = id /\ t.res \in {"ok", "dup"}

\* C27: a pending scan that is in the authoritative snapshot the poller
\* fetched has left the Pending Store (it is Confirmed), also when the
\* response to its dispatch was lost: the only pending scans found in the
\* snapshot are those whose answer is in hand and about to be processed.
C27_SnapshotPromotes ==
    \A d \in Devices : \A i \in DOMAIN pendingScans[d] :
        (\E row \in scanLogs[d] : row.id = pendingScans[d][i].id)
            => AnswerInHand(d, pendingScans[d][i].id)

C29_ResumeReconciles ==
    [][\A d \in Devices :
          AppStateActive(d) =>
              IF isOnline[d]
              THEN /\ scanLogs'[d] = {server[i] : i \in DOMAIN server}
                   /\ Len(pendingScans[d]) > 0 => syncPendingScans(d, appL[d])
              ELSE UNCHANGED <<scanLogs, tasks, isSyncing>>]_vars

\* before any cycle has ended on the device its snapshot holds the row of
\* another device and its first cycle is dispatching
C29_Witness ==
    \E d \in Devices :
        /\ isOnline[d]
        /\ lastSyncTime[d] = "null"
        /\ scanLogs[d] # {}
        /\ scanLogs[d] = {server[i] : i \in DOMAIN server}
        /\ \E t \in Running(d) : t.kind = "cycle" /\ t.i = 1 /\ t.res = "sent"

\* C30: when addScan finds the key in the local duplicate index it returns
\* {success: false, duplicate: true}, and the call leaves the Pending Store
\* (the list in memory and the durable list) as it was and sends nothing:
\* no task is started and the server is not reached.
C30_LocalDuplicateIsInert ==
    [][\A d \in Devices :
          /\ \A p \in Participants, c \in Checkpoints :
                (AddScanCall(d, p, c)
                 /\ isDuplicateScan(scanLogs[d], pendingScans[d], p, c))
                    => /\ returned'.dev = d
                       /\ returned'.res = "duplicate"
                       /\ returned'.scan.participantId = p
                       /\ returned'.scan.checkpointId = c
          /\ (returned'.dev = d /\ returned'.res = "duplicate")
                => UNCHANGED <<pendingScans, storage, tasks, server, createLog>>]_vars

\* addScan has just answered duplicate, online, for a key held by a scan of
\* the Pending Store
C30_Witness ==
    /\ returned.res = "duplicate"
    /\ isOnline[returned.dev]
    /\ HasKey(pendingScans[returned.dev], returned.scan.participantId,
              returned.scan.checkpointId)

\* what identifies a scan: everything but its retryCount
Identity(s) == [id |-> s.id, participantId |-> s.participantId,
                checkpointId |-> s.checkpointId, timestamp |-> s.timestamp,
                deviceId |-> s.deviceId]

SeqSet(list) == {list[i] : i \in DOMAIN list}

\* every copy of a scan the device holds: in the Pending Store (memory and
\* AsyncStorage), in the closures of the listeners, and in the calls in flight
Copies(d) ==
    SeqSet(pendingScans[d]) \cup SeqSet(StoredList(storage[d]))
        \cup SeqSet(netL[d].pendingScans) \cup SeqSet(appL[d].pendingScans)
        \cup UNION {SeqSet(t.snap) \cup SeqSet(t.batch) \cup
                    (IF t.scan = NoScan THEN {} ELSE {t.scan}) : t \in Running(d)}

\* the copies of one scan agree in everything but retryCount, carry the
\* timestamp of their creation (the model stamps a scan with its id), and
\* every request that reached scanLogs.create carried these values
IdentityKept(d) ==
    /\ \A a, b \in Copies(d) : a.id = b.id => Identity(a) = Identity(b)
    /\ \A a \in Copies(d) : a.timestamp = a.id
    /\ \A e \in createLog : \A a \in Copies(d) : e.scan.id = a.id => e.scan = Row(a)
    /\ \A e, f \in createLog : e.scan.id = f.scan.id => e.scan = f.scan

\* C31: retries never alter a scan's identity: in every state all copies of a
\* scan and all requests sent for it carry the id, participantId,
\* checkpointId, timestamp and deviceId set at creation, and from one state
\* to the next a pending scan changes in nothing but its retryCount.
C31_IdentityStable ==
    [][\A d \in Devices :
          /\ IdentityKept(d)'
          /\ \A i \in DOMAIN pendingScans[d] : \A j \in DOMAIN pendingScans'[d] :
                pendingScans[d][i].id = pendingScans'[d][j].id
                    => Identity(pendingScans[d][i]) = Identity(pendingScans'[d][j])]_vars

\* a scan created by addScan in this run is pending with a retryCount above
\* zero after a failed dispatch, and a cycle is dispatching it again
C31_Witness ==
    \E d \in Devices : \E t \in Running(d) :
        /\ t.kind = "cycle"
        /\ t.res = "sent"
        /\ t.scan.retryCount > 0
        /\ t.scan.id \in accepted[d]
        /\ t.scan \in SeqSet(pendingScans[d])

\* C32: the device identifier is generated once and is stable: all calls of
\* getOrCreateDeviceId, concurrent or separated by restarts, return one and
\* the same identifier, and it is the persisted one.
C32_DeviceIdStable ==
    /\ Cardinality(idReturned) <= 1
    /\ \A id \in idReturned : deviceIdItem = id

\* C40: generateQRToken returns, after at most maxAttempts passes of the
\* loop plus the fallback, a token that is not in existingTokens, whatever
\* the list holds and whatever the random choices are.
C40_TokenIsNew ==
    /\ qr.attempts <= maxAttempts
    /\ qr.done => qr.token \notin qr.existingTokens

\* the tick t makes its last step
TickEnds(t) ==
    /\ t.kind = "tick"
    /\ t.i = Len(t.scans)
    /\ CopiesIn(t, sinkTasks') < CopiesIn(t, sinkTasks)

\* the scans of tick t whose redelivery failed, its last one included
FailedInTick(t) ==
    IF failedScans' = failedScans THEN t.failed ELSE Append(t.failed, t.scans[t.i])

\* C33: a retry tick takes the whole queue as its snapshot and empties the
\* queue, and, with no logScan running meanwhile and the capacity not
\* reached, the queue at the end of the tick holds exactly the scans of the
\* snapshot whose redelivery failed, in their original order.
C33_TickRequeuesFailures ==
    [][/\ \A u \in BagToSet(sinkTasks') :
             (u.kind = "tick" /\ u.i = 1 /\ CopiesIn(u, sinkTasks') > CopiesIn(u, sinkTasks))
                 => u.scans = failedScans /\ failedScans' = <<>>
       /\ \A t \in SinkRunning :
             (TickEnds(t) /\ dropped' = dropped) => failedScans' = FailedInTick(t)]_vars

\* C34: a scan that is neither in the Pending Store nor about to be appended
\* by its addScan, and whose dispatch has returned success or duplicate, is
\* not in the Pending Store after any step: nothing writes it back.
C34_NoReappearance ==
    [][\A d \in Devices : \A id \in resolved[d] :
          id \notin Ids(pendingScans[d]) => id \notin Ids(pendingScans'[d])]_vars

\* C35: the retryCount of a pending scan never decreases from one state to
\* the next state in which it is pending.
C35_RetryCountMonotone ==
    [][\A d \in Devices :
          \A i \in DOMAIN pendingScans[d] : \A j \in DOMAIN pendingScans'[d] :
              pendingScans[d][i].id = pendingScans'[d][j].id
                  => pendingScans[d][i].retryCount <= pendingScans'[d][j].retryCount]_vars

\* C36: the Pending Store never holds two scans with the same
\* (participantId, checkpointId) key.
C36_PendingKeysUnique ==
    \A d \in Devices : \A i, j \in DOMAIN pendingScans[d] :
        SameKey(pendingScans[d][i], pendingScans[d][j]) => i = j

\* a scan of the key is in the Pending Store while a second addScan call for
\* the same key, which passed the duplicate check before that scan was
\* visible, is about to save its own scan
C36_Witness ==
    \E d \in Devices : \E t \in Running(d) : \E i \in DOMAIN pendingScans[d] :
        /\ t.kind = "add"
        /\ SameKey(t.scan, pendingScans[d][i])
        /\ t.scan.id # pendingScans[d][i].id

\* C37: the merged list the hook exposes (the fetched snapshot plus the
\* pending scans) never has two entries with the same id or with the same
\* (participantId, checkpointId) key.
C37_MergedListUnique ==
    \A d \in Devices : \A a, b \in allScanLogs(d) :
        (a.id = b.id \/ SameKey(a, b)) => a = b

\* the dispatches of scan id that are under way on device d: the request is
\* out, or its answer is in hand and syncSingleScan has not yet returned
Dispatching(d, id) ==
    {t \in Running(d) : /\ t.kind \in {"dispatch", "cycle"}
                        /\ t.scan.id = id
                        /\ t.res \in {"sent", "ok", "dup", "err", "rejected", "neither"}}

\* C38: a scan is never in flight in two dispatches at once on one device:
\* for every scan at most one call of syncSingleScan is under way.
C38_OneDispatchPerScan ==
    \A d \in Devices : \A t \in Running(d) :
        t.kind \in {"dispatch", "cycle"} /\ t.scan # NoScan
            => /\ Cardinality(Dispatching(d, t.scan.id)) <= 1
               /\ \A u \in Dispatching(d, t.scan.id) : CopiesIn(u, tasks[d]) = 1

\* C39: every sync cycle that starts ends, given that each dispatch call
\* returns or fails, and once it has ended, normally or through an error,
\* isSyncing is false again.
C39_CycleEnds ==
    \A d \in Devices :
        (CyclesRunning(d) > 0) ~> (CyclesRunning(d) = 0 /\ ~isSyncing[d])

\* a cycle ended through an error: no time of a last sync was recorded
C39_Witness ==
    \E d \in Devices :
        /\ CyclesRunning(d) = 0
        /\ ~isSyncing[d]
        /\ lastSyncTime[d] = "null"
        /\ resolved[d] # {}

====
